---------------------------- MODULE Spec2Model ----------------------------
(***************************************************************************)
(* FusionSolar custom view: the Express relay (server.js, lines 1-235) and *)
(* the React dashboard HuaweiSolarApp (lines 236-808).                      *)
(*                                                                         *)
(* The relay is stateless: a handler invocation is modelled by the         *)
(* variables relayPc, req, upstreamReq, upstreamRes, parsed, res and        *)
(* uncaught.  Since invocations share no state, one invocation is followed *)
(* at a time; the requests and responses of the dashboard wait in net, in  *)
(* any order.                                                              *)
(***************************************************************************)
EXTENDS Integers, Sequences, FiniteSets, TLC

VARIABLES
    relayPc,        \* "idle" | "fetch" (awaiting the upstream fetch) | "done"
    req,            \* the request being handled: [client, route, endpoint, body]
    upstreamReq,    \* the upstream requests this invocation issued, in order
    parsed,         \* whether this invocation called response.json()
    res,            \* the responses this invocation sent, in order
    upstreamRes,    \* how the upstream fetch settled, once it has
    uncaught,       \* whether an exception left the handler
    net,            \* dashboard <-> relay messages in flight
    \* HuaweiSolarApp: its useState cells,
    isAuthenticated,
    xsrfToken,
    availablePlants,
    selectedPlants,
    realTimeData,
    loading,
    loginError,
    credentials,
    \* its live setInterval timers, each with the closure it polls with,
    timers,
    effectCleanup,  \* whether the last effect run returned a cleanup
    tasks,          \* its async calls in flight (handleLogin, fetchRealTimeData)
    totals          \* what the dashboard last rendered from calculateTotals()

relayVars == <<relayPc, req, upstreamReq, parsed, res, upstreamRes, uncaught>>
stateVars == <<isAuthenticated, xsrfToken, availablePlants, selectedPlants,
               realTimeData, loading, loginError, credentials>>
uiVars == <<stateVars, timers, effectCleanup, tasks, totals>>
vars == <<relayVars, net, uiVars>>

---------------------------------------------------------------------------
(* JavaScript values.  A string is the sequence of its pieces; a piece is  *)
(* one character, or a run of characters that the program only copies and  *)
(* compares whole (a token, a station code, a message).                    *)

Undefined == [t |-> "undefined"]
Null == [t |-> "null"]
Bool(b) == [t |-> "boolean", b |-> b]
Num(n) == [t |-> "number", n |-> n]
Str(s) == [t |-> "string", v |-> s]
Obj(p) == [t |-> "object", p |-> p]
Arr(items) == [t |-> "array", items |-> items]
NaN == [t |-> "NaN"]

EmptyProps == [k \in {} |-> Undefined]

\* ToBoolean: what `!x`, `x || y` and `if (x)` test.
Truthy(x) ==
    CASE x.t = "undefined" -> FALSE
      [] x.t = "null" -> FALSE
      [] x.t = "boolean" -> x.b
      [] x.t = "number" -> x.n # 0
      [] x.t = "string" -> x.v # <<>>
      [] x.t = "NaN" -> FALSE
      [] OTHER -> TRUE

\* x.k: reading a property of null or undefined throws a TypeError.
CanRead(x) == x.t \notin {"undefined", "null"}

Get(x, k) ==
    IF x.t = "object" /\ k \in DOMAIN x.p THEN x.p[k] ELSE Undefined

\* const { k, ...rest } = x
Rest(x, k) == Obj([f \in (DOMAIN x.p) \ {k} |-> x.p[f]])

\* x.k = v (sloppy mode: silently ignored on a primitive)
Set(x, k, v) ==
    IF x.t = "object"
    THEN Obj([f \in (DOMAIN x.p) \cup {k} |-> IF f = k THEN v ELSE x.p[f]])
    ELSE x

IsWhitespace(c) == c \in {" ", "\t", "\n"}

RECURSIVE TrimStart(_)
TrimStart(s) ==
    IF s # <<>> /\ IsWhitespace(Head(s)) THEN TrimStart(Tail(s)) ELSE s

RECURSIVE TrimEnd(_)
TrimEnd(s) ==
    IF s # <<>> /\ IsWhitespace(s[Len(s)])
    THEN TrimEnd(SubSeq(s, 1, Len(s) - 1))
    ELSE s

\* String.prototype.trim
Trim(s) == TrimEnd(TrimStart(s))

Digit(d) ==
    CASE d = 0 -> "0" [] d = 1 -> "1" [] d = 2 -> "2" [] d = 3 -> "3"
      [] d = 4 -> "4" [] d = 5 -> "5" [] d = 6 -> "6" [] d = 7 -> "7"
      [] d = 8 -> "8" [] d = 9 -> "9"

\* `${n}` for a non-negative integer
RECURSIVE NumberToString(_)
NumberToString(n) ==
    IF n < 10 THEN <<Digit(n)>>
    ELSE NumberToString(n \div 10) \o <<Digit(n % 10)>>

\* String(x), as a header value is coerced.
StringOf(x) ==
    CASE x.t = "string" -> x.v
      [] x.t = "number" -> NumberToString(x.n)
      [] x.t = "boolean" -> IF x.b THEN <<"true">> ELSE <<"false">>
      [] x.t = "object" -> <<"[object Object]">>
      [] x.t = "array" -> <<"[array]">>
      [] OTHER -> <<x.t>>

\* JSON.stringify of a value that JSON can carry, and response.json() of a
\* body: a body that is not JSON text makes json() reject.
JSONstringify(x) == [kind |-> "json", value |-> x]
IsJSON(text) == text.kind = "json"
JSONparse(text) == text.value


---------------------------------------------------------------------------
(* The relay: what its clients and the vendor can send it.                 *)

MaxCodesLen == 2

\* The objects over the optional fields F, field k drawn from Vals(k).
Objects(F, Vals(_)) ==
    UNION { { Obj(f) : f \in { g \in [S -> UNION { Vals(k) : k \in S }] :
                                  \A k \in S : g[k] \in Vals(k) } } :
            S \in SUBSET F }

RECURSIVE StringsUpTo(_, _)
StringsUpTo(pieces, n) ==
    IF n = 0 THEN {<<>>}
    ELSE LET shorter == StringsUpTo(pieces, n - 1)
         IN  shorter \cup { Append(s, c) : s \in shorter, c \in pieces }

LoginFieldValues(k) ==
    CASE k = "userName" -> {Str(<<>>), Str(<<"installer">>)}
      [] k = "systemCode" -> {Str(<<>>), Str(<<"secret">>)}

LoginBodies == Objects({"userName", "systemCode"}, LoginFieldValues)

ProxyFieldValues(k) ==
    CASE k = "xsrfToken" -> {Null, Str(<<>>), Str(<<"tokA">>), Str(<<"tokB">>)}
      [] k = "stationCodes" ->
            { Str(s) : s \in StringsUpTo({" ", "NE=1"}, MaxCodesLen) }
                \cup {Null, Num(5)}
      [] k = "pageNo" -> {Num(1)}

ProxyBodies == Objects({"xsrfToken", "stationCodes", "pageNo"}, ProxyFieldValues)

\* Any path segment but "login", which the login route answers first.
Endpoints == {"getStationRealKpi", "getStationList", "getKpiStationDay"}

StatusText(s) ==
    CASE s = 200 -> "OK"
      [] s = 201 -> "Created"
      [] s = 404 -> "Not Found"
      [] s = 500 -> "Internal Server Error"

UpstreamStatuses == {200, 201, 404, 500}

\* Response header sets, keyed by lower-cased name as node-fetch keeps them.
UpstreamHeaders(route) ==
    IF route = "login"
    THEN { h \in UNION { [S -> {<<>>, <<"tokA">>, <<"tokX">>}] :
                         S \in SUBSET {"xsrf-token", "x-xsrf-token"} } :
             /\ "xsrf-token" \in DOMAIN h => h["xsrf-token"] # <<"tokX">>
             /\ "x-xsrf-token" \in DOMAIN h => h["x-xsrf-token"] = <<"tokX">> }
    ELSE {EmptyProps}

Envelope(success, failCode) ==
    Obj(("success" :> Bool(success)) @@ ("failCode" :> Num(failCode)))

\* Response bodies: text that is not JSON, and JSON texts.
UpstreamBodies ==
    {[kind |-> "html"]} \cup
    { JSONstringify(v) :
        v \in { Null, Num(7), Obj(EmptyProps),
                Envelope(TRUE, 0), Envelope(FALSE, 407),
                Envelope(FALSE, 20010), Envelope(FALSE, 305),
                Obj(("success" :> Bool(TRUE)) @@ ("xsrfToken" :> Str(<<"tokOld">>))) } }

\* How `await fetch(...)` settles: it rejects, or resolves with a response.
FetchOutcomes(route) ==
    {[kind |-> "reject", message |-> <<"connect ECONNREFUSED">>]} \cup
    { [kind |-> "resolve",
       response |-> [status |-> s, statusText |-> StatusText(s),
                     headers |-> h, text |-> b]] :
        s \in UpstreamStatuses, h \in UpstreamHeaders(route), b \in UpstreamBodies }

NoOutcome == [kind |-> "none"]

\* response.ok
Ok(response) == response.status >= 200 /\ response.status <= 299

\* Headers.get: case-insensitive, null when the header is absent.
LowerCase(name) ==
    CASE name = "XSRF-TOKEN" -> "xsrf-token"
      [] name = "X-XSRF-TOKEN" -> "x-xsrf-token"
      [] OTHER -> name

HeadersGet(headers, name) ==
    IF LowerCase(name) \in DOMAIN headers
    THEN Str(headers[LowerCase(name)])
    ELSE Null

\* a || b
Or(a, b) == IF Truthy(a) THEN a ELSE b

---------------------------------------------------------------------------
(* The relay's handlers.  A handler runs to its first await (Try), and     *)
(* from the settling of the upstream fetch to its end (Resume).  Each part *)
(* yields the responses it sent, in order, and whether an exception left   *)
(* it; Try also yields the upstream request it awaits, if it got that far. *)

Message(text) == Obj(("success" :> Bool(FALSE)) @@ ("error" :> Str(text)))

\* res.status(s).json(body)
Response(status, body) == [status |-> status, body |-> body]

\* The catch blocks: 500, a generic message and the exception's text.
Caught(generic, message) ==
    Response(500, Obj(("success" :> Bool(FALSE)) @@ ("error" :> Str(<<generic>>))
                      @@ ("details" :> Str(message))))

\* A handler whose exceptions nothing catches: no response, and the
\* rejection leaves the handler.
catch_Missing(generic, message) == [sent |-> <<>>, uncaught |-> TRUE]

\* try { ... } catch (error) { res.status(500).json(...) }: what a throw in
\* the try block leads to.
catch(generic, message) ==
    [sent |-> <<Caught(generic, message)>>, uncaught |-> FALSE]

Returned(sent) == [next |-> "return", sent |-> sent, uncaught |-> FALSE]
Awaiting(request) ==
    [next |-> "await", sent |-> <<>>, uncaught |-> FALSE, request |-> request]

VendorUrl(endpoint) == <<"https://intl.fusionsolar.huawei.com/thirdData/", endpoint>>

\* A check that lets a request through with one of the two.
credentialsMissing_Both(userName, systemCode) ==
    ~Truthy(userName) /\ ~Truthy(systemCode)

\* if (!userName || !systemCode)
credentialsMissing(userName, systemCode) == ~Truthy(userName) \/ ~Truthy(systemCode)

loginTry(body) ==
    LET userName == Get(body, "userName")
        systemCode == Get(body, "systemCode")
    IN  IF credentialsMissing(userName, systemCode)
        THEN Returned(<<Response(400,
                 Message(<<"Username and system code are required">>))>>)
        ELSE Awaiting([url |-> VendorUrl("login"),
                       headers |-> [k \in {} |-> <<>>],
                       body |-> JSONstringify(Obj(("userName" :> userName)
                                    @@ ("systemCode" :> systemCode)))])

\* `${label}: ${response.status} ${response.statusText}`
upstreamError(label, response) ==
    <<label>> \o NumberToString(response.status) \o <<" ", response.statusText>>

\* A relay that answers every upstream failure with 500.
relayedStatus_Always500(response) == 500

\* The status the non-2xx branch answers with.
relayedStatus(response) == response.status

\* response.headers.get('xsrf-token') || ... ('XSRF-TOKEN') || ... ('X-XSRF-TOKEN')
extractToken(headers) ==
    Or(HeadersGet(headers, "xsrf-token"),
       Or(HeadersGet(headers, "XSRF-TOKEN"), HeadersGet(headers, "X-XSRF-TOKEN")))

\* if (xsrfToken) { data.xsrfToken = xsrfToken }
augment(data, token) ==
    IF Truthy(token) THEN Set(data, "xsrfToken", token) ELSE data

loginResume(outcome) ==
    IF outcome.kind = "reject"
    THEN [parsed |-> FALSE] @@ catch("Login proxy server error", outcome.message)
    ELSE LET response == outcome.response
         IN  IF ~Ok(response)
             THEN [parsed |-> FALSE, uncaught |-> FALSE,
                   sent |-> <<Response(relayedStatus(response),
                        Message(upstreamError("Login API error: ", response)))>>]
             ELSE IF ~IsJSON(response.text)
             THEN [parsed |-> TRUE]
                      @@ catch("Login proxy server error", <<"invalid json response body">>)
             ELSE LET data == JSONparse(response.text)
                  IN  IF ~CanRead(data)
                      THEN [parsed |-> TRUE]
                               @@ catch("Login proxy server error",
                                   <<"Cannot read properties of null (reading 'success')">>)
                      ELSE [parsed |-> TRUE, uncaught |-> FALSE,
                            sent |-> <<Response(200,
                                augment(data, extractToken(response.headers)))>>]

\* A check for an absent token only (xsrfToken === undefined).
tokenMissing_OnlyUndefined(token) == token.t = "undefined"

\* if (!xsrfToken)
tokenMissing(token) == ~Truthy(token)

\* The endpoint whose stationCodes are validated.
validatedEndpoint == "getStationRealKpi"

\* The same check without the trim.
stationCodesBlank_NoTrim(stationCodes) ==
    ~Truthy(stationCodes) \/ stationCodes.v = <<>>

\* !body.stationCodes || body.stationCodes.trim() === '', where the codes
\* are a string; .trim() of another truthy value throws.
stationCodesBlank(stationCodes) ==
    ~Truthy(stationCodes) \/ Trim(stationCodes.v) = <<>>

\* The header and the body the generic handler forwards.
forwardedHeaders(token) == ("XSRF-TOKEN" :> StringOf(token))

\* A relay that forwards req.body whole, the token included.
forwardedBody_WithToken(token, body) ==
    JSONstringify(Set(body, "xsrfToken", token))

forwardedBody(token, body) == JSONstringify(body)

proxyTry(endpoint, reqBody) ==
    LET token == Get(reqBody, "xsrfToken")
        body == Rest(reqBody, "xsrfToken")
        stationCodes == Get(body, "stationCodes")
    IN  IF tokenMissing(token)
        THEN Returned(<<Response(400, Message(<<"XSRF token is required">>))>>)
        ELSE IF endpoint = validatedEndpoint /\ Truthy(stationCodes)
                  /\ stationCodes.t # "string"
        THEN [next |-> "return"]
                 @@ catch("Proxy server error",
                          <<"body.stationCodes.trim is not a function">>)
        ELSE IF endpoint = validatedEndpoint /\ stationCodesBlank(stationCodes)
        THEN Returned(<<Response(400,
                 Message(<<"stationCodes parameter is required and cannot be empty">>))>>)
        ELSE Awaiting([url |-> VendorUrl(endpoint),
                       headers |-> forwardedHeaders(token),
                       body |-> forwardedBody(token, body)])

proxyResume(outcome) ==
    IF outcome.kind = "reject"
    THEN [parsed |-> FALSE] @@ catch("Proxy server error", outcome.message)
    ELSE LET response == outcome.response
         IN  IF ~Ok(response)
             THEN [parsed |-> FALSE, uncaught |-> FALSE,
                   sent |-> <<Response(relayedStatus(response),
                        Message(upstreamError("API error: ", response)))>>]
             ELSE IF ~IsJSON(response.text)
             THEN [parsed |-> TRUE]
                      @@ catch("Proxy server error", <<"invalid json response body">>)
             ELSE LET data == JSONparse(response.text)
                  IN  IF ~CanRead(data)
                      THEN [parsed |-> TRUE]
                               @@ catch("Proxy server error",
                                   <<"Cannot read properties of null (reading 'success')">>)
                      ELSE [parsed |-> TRUE, uncaught |-> FALSE,
                            sent |-> <<Response(200, data)>>]

---------------------------------------------------------------------------
(* HuaweiSolarApp: the dashboard's totals.                                 *)

MaxPlants == 2
MaxTasks == 2

IsDigit(c) == c \in {"0", "1", "2", "3", "4", "5", "6", "7", "8", "9"}

DigitValue(c) ==
    CASE c = "0" -> 0 [] c = "1" -> 1 [] c = "2" -> 2 [] c = "3" -> 3
      [] c = "4" -> 4 [] c = "5" -> 5 [] c = "6" -> 6 [] c = "7" -> 7
      [] c = "8" -> 8 [] c = "9" -> 9

RECURSIVE LeadingDigits(_)
LeadingDigits(s) ==
    IF s # <<>> /\ IsDigit(Head(s))
    THEN <<Head(s)>> \o LeadingDigits(Tail(s))
    ELSE <<>>

RECURSIVE DigitsValue(_)
DigitsValue(ds) ==
    IF ds = <<>> THEN 0
    ELSE 10 * DigitsValue(SubSeq(ds, 1, Len(ds) - 1)) + DigitValue(ds[Len(ds)])

\* parseFloat(x): the number the longest numeric prefix of String(x) spells,
\* leading whitespace skipped; NaN when there is none.  (Unsigned whole
\* numbers: a string here is the sequence of its characters.)
parseFloat(x) ==
    LET ds == LeadingDigits(TrimStart(StringOf(x)))
    IN  IF ds = <<>> THEN NaN ELSE Num(DigitsValue(ds))

\* a + b on numbers
Add(a, b) == IF a = NaN \/ b = NaN THEN NaN ELSE Num(a.n + b.n)

\* A reading that lacks the `|| 0`.
fieldOrZero_NoDefault(data, k) == Get(data, k)

\* data.k || 0
fieldOrZero(data, k) == Or(Get(data, k), Num(0))

\* The reducer of calculateTotals.
addPlant(acc, plant) ==
    LET data == Or(Get(plant, "dataItemMap"), Obj(EmptyProps))
    IN  [totalDayPower |->
             Add(acc.totalDayPower, parseFloat(fieldOrZero(data, "day_power"))),
         totalRevenue |->
             Add(acc.totalRevenue, parseFloat(fieldOrZero(data, "day_income"))),
         totalMonthPower |->
             Add(acc.totalMonthPower, parseFloat(fieldOrZero(data, "month_power"))),
         totalLifetimePower |->
             Add(acc.totalLifetimePower, parseFloat(fieldOrZero(data, "total_power"))),
         totalOnGridEnergy |->
             Add(acc.totalOnGridEnergy,
                 parseFloat(fieldOrZero(data, "day_on_grid_energy")))]

RECURSIVE reduce(_, _)
reduce(list, acc) ==
    IF list = <<>> THEN acc ELSE reduce(Tail(list), addPlant(acc, Head(list)))

calculateTotals(data) ==
    reduce(data, [totalDayPower |-> Num(0), totalRevenue |-> Num(0),
                  totalMonthPower |-> Num(0), totalLifetimePower |-> Num(0),
                  totalOnGridEnergy |-> Num(0)])

\* Nothing rendered: the login page, or the dashboard before its render.
NoTotals == [rendered |-> FALSE]

\* const totals = calculateTotals(), in the dashboard's render only.
renderTotals(authenticated, data) ==
    IF authenticated THEN calculateTotals(data) ELSE NoTotals

\* The telemetry fields the totals are folded from, each with a number of
\* its own.
TelemetryFields ==
    {"day_power", "day_income", "month_power", "total_power", "day_on_grid_energy"}

FieldNumber(k) ==
    CASE k = "day_power" -> 1 [] k = "day_income" -> 2 [] k = "month_power" -> 3
      [] k = "total_power" -> 4 [] k = "day_on_grid_energy" -> 5

\* The values a vendor sends for field k: a number, zero, a numeric string
\* (two digits), null, and text that is no number.
FieldValue(k, form) ==
    CASE form = "number" -> Num(FieldNumber(k))
      [] form = "zero" -> Num(0)
      [] form = "string" -> Str(<<"1", Digit(FieldNumber(k))>>)
      [] form = "null" -> Null
      [] form = "text" -> Str(<<"x">>)

DataItemMaps ==
    { Obj([k \in S |-> FieldValue(k, form)]) :
        S \in {TelemetryFields} \cup {{}} \cup { TelemetryFields \ {k} : k \in TelemetryFields },
        form \in {"number", "zero", "string", "null", "text"} }

Snapshots ==
    {Obj("stationCode" :> Str(<<"NE=1">>))}
    \cup { Obj(("stationCode" :> Str(<<"NE=1">>)) @@ ("dataItemMap" :> m)) :
             m \in DataItemMaps \cup {Null} }

RECURSIVE ListsUpTo(_, _)
ListsUpTo(S, n) ==
    IF n = 0 THEN {<<>>}
    ELSE LET shorter == ListsUpTo(S, n - 1)
         IN  shorter \cup { Append(l, x) : l \in shorter, x \in S }

SnapshotLists == ListsUpTo(Snapshots, MaxPlants)

---------------------------------------------------------------------------
(* What the vendor answers the dashboard's calls with.                     *)

MaxStations == 1

StationCode(k) == Str(<<"NE=" \o Digit(k)>>)

\* An entry of getStationList's data: code, name, capacity in MW.
Station(k) ==
    Obj(("stationCode" :> StationCode(k))
        @@ ("stationName" :> Str(<<"Plant", " ", Digit(k)>>))
        @@ ("capacity" :> Num(k)))

Stations(n) == Arr([k \in 1..n |-> Station(k)])

\* An entry of getStationRealKpi's data: numbers for the first plant,
\* numeric strings for the others.
Snapshot(k) ==
    Obj(("stationCode" :> StationCode(k))
        @@ ("dataItemMap" :>
               Obj([f \in TelemetryFields |->
                       FieldValue(f, IF k = 1 THEN "number" ELSE "string")])))

Telemetry(n) == Arr([k \in 1..n |-> Snapshot(k)])

SessionTokens == {<<"tokA">>, <<"tokB">>}

Rejected == [kind |-> "reject", message |-> <<"connect ECONNREFUSED">>]

Resolved(status, headers, text) ==
    [kind |-> "resolve",
     response |-> [status |-> status, statusText |-> StatusText(status),
                   headers |-> headers, text |-> text]]

Answer(value) == Resolved(200, EmptyProps, JSONstringify(value))

DashboardOutcomes(endpoint) ==
    CASE endpoint = "login" ->
            {Rejected, Resolved(500, EmptyProps, [kind |-> "html"]),
             Answer(Envelope(TRUE, 0)),
             Answer(Set(Envelope(FALSE, 20400), "message",
                        Str(<<"USER_OR_VALUE_INVALID">>)))}
            \cup { Resolved(200, "xsrf-token" :> t, JSONstringify(Envelope(TRUE, 0))) :
                     t \in SessionTokens }
      [] endpoint = "getStationList" ->
            {Rejected, Answer(Envelope(TRUE, 0)), Answer(Envelope(FALSE, 407))}
            \cup { Answer(Set(Envelope(TRUE, 0), "data", Stations(n))) :
                     n \in 0..MaxStations }
      [] OTHER ->
            {Rejected, Answer(Envelope(TRUE, 0)), Answer(Envelope(FALSE, 407)),
             Answer(Envelope(FALSE, 20010)), Answer(Envelope(FALSE, 305))}
            \cup { Answer(Set(Envelope(TRUE, 0), "data", Telemetry(n))) :
                     n \in 1..MaxStations }

\* How the upstream fetch of request r can settle.
VendorOutcomes(r) ==
    IF r.client = 0 THEN FetchOutcomes(r.route) ELSE DashboardOutcomes(r.endpoint)

---------------------------------------------------------------------------
(* The relay's actions.                                                    *)

\* A request is from call i of the dashboard (client i), or from any other
\* HTTP client (client 0).
NoRequest == [client |-> 0, route |-> "none", endpoint |-> "none",
              body |-> Obj(EmptyProps)]

\* What reaches the client: the first response sent for its request.
Deliver(msgs, r, before, sent) ==
    IF r.client = 0 \/ before # <<>> \/ sent = <<>>
    THEN msgs
    ELSE msgs \cup {[type |-> "response", client |-> r.client,
                     status |-> sent[1].status, body |-> sent[1].body]}

\* The frame of an invocation that has returned.  It is kept for a request
\* from outside, as what that client observed; the frame of a dashboard call
\* is gone, and its response is in net.
Return(r, issued, p, sent, outcome, escaped) ==
    IF r.client = 0
    THEN /\ relayPc' = "done"
         /\ req' = r
         /\ upstreamReq' = issued
         /\ parsed' = p
         /\ res' = sent
         /\ upstreamRes' = outcome
         /\ uncaught' = escaped
    ELSE /\ relayPc' = "idle"
         /\ req' = NoRequest
         /\ upstreamReq' = <<>>
         /\ parsed' = FALSE
         /\ res' = <<>>
         /\ upstreamRes' = NoOutcome
         /\ uncaught' = escaped

\* A handler starts on request r; msgs are the other messages in flight.
Start(r, msgs, step) ==
    /\ relayPc \in {"idle", "done"}
    /\ IF step.next = "await"
       THEN /\ relayPc' = "fetch"
            /\ req' = r
            /\ upstreamReq' = <<step.request>>
            /\ parsed' = FALSE
            /\ res' = step.sent
            /\ upstreamRes' = NoOutcome
            /\ uncaught' = step.uncaught
       ELSE Return(r, <<>>, FALSE, step.sent, NoOutcome, step.uncaught)
    /\ net' = Deliver(msgs, r, <<>>, step.sent)

\* The upstream fetch settles and the handler runs to its end.
Settle(outcome, step) ==
    /\ Return(req, upstreamReq, step.parsed, res \o step.sent, outcome,
              uncaught \/ step.uncaught)
    /\ net' = Deliver(net, req, res, step.sent)

\* app.post('/api/huawei/login')
PostLogin(r, msgs) == Start(r, msgs, loginTry(r.body))

PostLoginSettled ==
    /\ relayPc = "fetch"
    /\ req.route = "login"
    /\ \E outcome \in VendorOutcomes(req) : Settle(outcome, loginResume(outcome))
    /\ UNCHANGED uiVars

\* app.post('/api/huawei/:endpoint')
PostProxy(r, msgs) == Start(r, msgs, proxyTry(r.endpoint, r.body))

PostProxySettled ==
    /\ relayPc = "fetch"
    /\ req.route = "proxy"
    /\ \E outcome \in VendorOutcomes(req) : Settle(outcome, proxyResume(outcome))
    /\ UNCHANGED uiVars

\* Any HTTP client calls the relay.
ClientPostLogin ==
    /\ \E b \in LoginBodies :
          PostLogin([client |-> 0, route |-> "login", endpoint |-> "login",
                     body |-> b], net)
    /\ UNCHANGED uiVars

ClientPostProxy ==
    /\ \E e \in Endpoints, b \in ProxyBodies :
          PostProxy([client |-> 0, route |-> "proxy", endpoint |-> e,
                     body |-> b], net)
    /\ UNCHANGED uiVars

\* express.json(): the request as the handler reads it.
RequestOf(m) == [client |-> m.client, route |-> m.route,
                 endpoint |-> m.endpoint, body |-> JSONparse(m.body)]

\* The dashboard's requests reach the relay.
DashboardPostLogin ==
    /\ \E m \in net :
          /\ m.type = "request"
          /\ m.route = "login"
          /\ PostLogin(RequestOf(m), net \ {m})
    /\ UNCHANGED uiVars

DashboardPostProxy ==
    /\ \E m \in net :
          /\ m.type = "request"
          /\ m.route = "proxy"
          /\ PostProxy(RequestOf(m), net \ {m})
    /\ UNCHANGED uiVars

RelayInit ==
    /\ relayPc = "idle"
    /\ req = NoRequest
    /\ upstreamReq = <<>>
    /\ parsed = FALSE
    /\ res = <<>>
    /\ upstreamRes = NoOutcome
    /\ uncaught = FALSE
    /\ net = {}

---------------------------------------------------------------------------
(* HuaweiSolarApp: its handlers.  A handler, or the part of an async       *)
(* function between two awaits, runs to its end; React then renders the    *)
(* state it set and runs the auto-refresh effect if a dependency changed.  *)

NoTask == [kind |-> "free"]

\* process.env.NODE_ENV of the build the dashboard runs in.
NODE_ENV == "production"

Free(ts) == { i \in DOMAIN ts : ts[i] = NoTask }

\* An async call is followed in the first free slot.
NewTask(ts) == CHOOSE i \in Free(ts) : \A j \in Free(ts) : i <= j

\* fetch(`${API_BASE_URL}/api/huawei/${endpoint}`, { method: 'POST',
\*       body: JSON.stringify(body) }), by call i.
Request(i, endpoint, body) ==
    [type |-> "request", client |-> i,
     route |-> IF endpoint = "login" THEN "login" ELSE "proxy",
     endpoint |-> endpoint, body |-> JSONstringify(body)]

\* How the fetch of call i can settle now: with the relay's response, or
\* rejected, its request or response lost.
Settlements(i) ==
    { [ok |-> TRUE, m |-> m] : m \in { n \in net : n.client = i /\ n.type = "response" } }
    \cup { [ok |-> FALSE, m |-> m] : m \in { n \in net : n.client = i } }

\* Array.prototype.join(','): null and undefined elements join as ''.
RECURSIVE join(_)
join(list) ==
    IF list = <<>> THEN <<>>
    ELSE LET first == IF CanRead(Head(list)) THEN StringOf(Head(list)) ELSE <<>>
         IN  IF Len(list) = 1 THEN first
             ELSE first \o <<",">> \o join(Tail(list))

\* A guard that lets a poll out whatever the token.
skipPoll_TokenUnchecked(token, selected) == Len(selected) = 0

\* if (!xsrfToken || selectedPlants.length === 0) return
skipPoll(token, selected) == ~Truthy(token) \/ Len(selected) = 0

pollBody(token, selected) ==
    Obj(("xsrfToken" :> token) @@ ("stationCodes" :> Str(join(selected))))

\* fetchRealTimeData as far as its await, in the closure that holds token
\* and selected; ts, nt and ld are the calls in flight, the messages and the
\* loading flag before it.  ok: the call is one the model can follow.
fetchRealTimeData(token, selected, ts, nt, ld) ==
    IF skipPoll(token, selected)
    THEN [ok |-> TRUE, tasks |-> ts, net |-> nt, loading |-> ld]
    ELSE IF Free(ts) = {}
    THEN [ok |-> FALSE, tasks |-> ts, net |-> nt, loading |-> ld]
    ELSE LET i == NewTask(ts)
         IN  [ok |-> TRUE,
              tasks |-> [ts EXCEPT ![i] = [kind |-> "poll"]],
              net |-> nt \cup {Request(i, "getStationRealKpi",
                                       pollBody(token, selected))},
              loading |-> TRUE]

\* The handle setInterval returns: another one than that of the interval
\* created before it.
newInterval == IF timers = <<>> THEN 0 ELSE 1 - timers[Len(timers)].id

\* An effect whose cleanup clears nothing.
useEffect_NoCleanup(auth, token, selected, ts, nt, ld) ==
    IF auth /\ Len(selected) > 0
    THEN fetchRealTimeData(token, selected, ts, nt, ld)
             @@ [timers |-> Append(timers, [id |-> newInterval, token |-> token,
                                            selected |-> selected]),
                 cleanup |-> TRUE]
    ELSE [ok |-> TRUE, tasks |-> ts, net |-> nt, loading |-> ld,
          timers |-> timers, cleanup |-> FALSE]

\* The auto-refresh effect: the cleanup the last run returned clears that
\* run's interval; then, authenticated with a plant selected, one poll now
\* and an interval that polls with the same closure.
useEffect(auth, token, selected, ts, nt, ld) ==
    LET kept == IF effectCleanup THEN SubSeq(timers, 1, Len(timers) - 1)
                ELSE timers
    IN  IF auth /\ Len(selected) > 0
        THEN fetchRealTimeData(token, selected, ts, nt, ld)
                 @@ [timers |-> Append(kept, [id |-> newInterval, token |-> token,
                                              selected |-> selected]),
                     cleanup |-> TRUE]
        ELSE [ok |-> TRUE, tasks |-> ts, net |-> nt, loading |-> ld,
              timers |-> kept, cleanup |-> FALSE]

\* The render after a handler: the state cells as the handler set them
\* (selectedSet: it called setSelectedPlants, with a new array), the
\* effect on a change of [isAuthenticated, selectedPlants], the totals.
Commit(auth, token, plants, selected, selectedSet, data, ld, error, creds, ts, nt) ==
    LET depsChanged == auth # isAuthenticated \/ selectedSet
        eff == IF depsChanged
               THEN useEffect(auth, token, selected, ts, nt, ld)
               ELSE [ok |-> TRUE, tasks |-> ts, net |-> nt, loading |-> ld,
                     timers |-> timers, cleanup |-> effectCleanup]
    IN  /\ eff.ok
        /\ isAuthenticated' = auth
        /\ xsrfToken' = token
        /\ availablePlants' = plants
        /\ selectedPlants' = selected
        /\ realTimeData' = data
        /\ loading' = eff.loading
        /\ loginError' = error
        /\ credentials' = creds
        /\ tasks' = eff.tasks
        /\ net' = eff.net
        /\ timers' = eff.timers
        /\ effectCleanup' = eff.cleanup
        /\ totals' = renderTotals(auth, data)
        /\ UNCHANGED relayVars

\* The login form's inputs: setCredentials(prev => ({ ...prev, k: value })).
ChangeUserName ==
    /\ ~isAuthenticated
    /\ \E v \in LoginFieldValues("userName") :
          Commit(isAuthenticated, xsrfToken, availablePlants, selectedPlants, FALSE,
                 realTimeData, loading, loginError,
                 [credentials EXCEPT !.userName = v], tasks, net)

ChangeSystemCode ==
    /\ ~isAuthenticated
    /\ \E v \in LoginFieldValues("systemCode") :
          Commit(isAuthenticated, xsrfToken, availablePlants, selectedPlants, FALSE,
                 realTimeData, loading, loginError,
                 [credentials EXCEPT !.systemCode = v], tasks, net)

\* Sign In (disabled while loading): handleLogin as far as its fetch.
HandleLogin ==
    /\ ~isAuthenticated
    /\ ~loading
    /\ Free(tasks) # {}
    /\ LET i == NewTask(tasks)
       IN  Commit(isAuthenticated, xsrfToken, availablePlants, selectedPlants, FALSE,
                  realTimeData, TRUE, Str(<<>>), credentials,
                  [tasks EXCEPT ![i] = [kind |-> "login"]],
                  net \cup {Request(i, "login",
                      Obj(("userName" :> credentials.userName)
                          @@ ("systemCode" :> credentials.systemCode)))})

\* The message of handleLogin's catch block.
loginNetworkError ==
    IF NODE_ENV = "development"
    THEN Str(<<"Network error. Please check if the proxy server is running on port 3001.">>)
    ELSE Str(<<"Network error. Please check your connection and try again.">>)

\* handleLogin from the settling of its fetch: on to fetchStationList with
\* the token, or to its end with an error message.  The relay's response
\* carries no xsrf-token header of its own.
handleLoginResume(s) ==
    IF ~s.ok \/ ~CanRead(s.m.body)
    THEN [next |-> "finally", error |-> loginNetworkError]
    ELSE LET data == s.m.body
             token == Or(Get(data, "xsrfToken"), HeadersGet(EmptyProps, "xsrf-token"))
         IN  IF Get(data, "success") # Bool(TRUE)
             THEN [next |-> "finally",
                   error |-> Or(Get(data, "message"),
                                Str(<<"Login failed. Please check your credentials.">>))]
             ELSE IF ~Truthy(token)
             THEN [next |-> "finally",
                   error |-> Str(<<"XSRF token not received. Please check API response.">>)]
             ELSE [next |-> "fetchStationList", token |-> token]

\* JSON.stringify({ xsrfToken: token })
stationListBody(token) == Obj("xsrfToken" :> token)

HandleLoginSettled ==
    \E i \in DOMAIN tasks :
       /\ tasks[i].kind = "login"
       /\ \E s \in Settlements(i) :
             LET step == handleLoginResume(s)
             IN  IF step.next = "fetchStationList"
                 THEN Commit(isAuthenticated, step.token, availablePlants,
                             selectedPlants, FALSE, realTimeData, loading, loginError,
                             credentials,
                             [tasks EXCEPT ![i] = [kind |-> "stations",
                                                   token |-> step.token]],
                             (net \ {s.m})
                                 \cup {Request(i, "getStationList",
                                               stationListBody(step.token))})
                 ELSE Commit(isAuthenticated, xsrfToken, availablePlants,
                             selectedPlants, FALSE, realTimeData, FALSE, step.error,
                             credentials, [tasks EXCEPT ![i] = NoTask], net \ {s.m})

\* (n * 1000).toFixed(1) of a whole number; NaN without a number.
toFixed1(capacity) ==
    IF capacity.t = "number"
    THEN NumberToString(capacity.n * 1000) \o <<".", "0">>
    ELSE <<"NaN">>

\* station => ({ code, name, capacity: `${...} kW` })
plantOf(station) ==
    [code |-> Get(station, "stationCode"),
     name |-> Get(station, "stationName"),
     capacity |-> Str(toFixed1(Get(station, "capacity")) \o <<" ", "kW">>)]

\* fetchStationList from the settling of its fetch: the plants it sets, if
\* any.  Its catch block swallows a rejected fetch and a throw of the map.
fetchStationListResume(s) ==
    IF ~s.ok \/ ~CanRead(s.m.body)
    THEN [set |-> FALSE]
    ELSE LET list == Get(s.m.body, "data")
         IN  IF Get(s.m.body, "success") # Bool(TRUE) \/ ~Truthy(list)
             THEN [set |-> FALSE]
             ELSE IF list.t # "array"
             THEN [set |-> FALSE]
             ELSE IF \E k \in DOMAIN list.items : ~CanRead(list.items[k])
             THEN [set |-> FALSE]
             ELSE [set |-> TRUE,
                   plants |-> [k \in DOMAIN list.items |-> plantOf(list.items[k])]]

\* fetchStationList returns into handleLogin: setIsAuthenticated(true), and
\* finally setLoading(false).
FetchStationListSettled ==
    \E i \in DOMAIN tasks :
       /\ tasks[i].kind = "stations"
       /\ \E s \in Settlements(i) :
             LET r == fetchStationListResume(s)
             IN  Commit(TRUE, xsrfToken,
                        IF r.set THEN r.plants ELSE availablePlants,
                        IF r.set THEN [k \in DOMAIN r.plants |-> r.plants[k].code]
                                 ELSE selectedPlants,
                        r.set, realTimeData, FALSE, loginError, credentials,
                        [tasks EXCEPT ![i] = NoTask], net \ {s.m})

\* A fetchRealTimeData that drops the snapshot when the poll fails.
fetchRealTimeDataResume_ClearsSnapshot(s) ==
    IF ~s.ok \/ ~CanRead(s.m.body)
    THEN [data |-> <<>>,
          error |-> Str(<<"Network error. Please check your connection.">>)]
    ELSE IF Get(s.m.body, "success") = Bool(TRUE)
    THEN [data |-> Or(Get(s.m.body, "data"), Arr(<<>>)).items, error |-> Str(<<>>)]
    ELSE [data |-> <<>>,
          error |-> Str(<<"Failed to fetch data. Please try again later.">>)]

\* fetchRealTimeData from the settling of its fetch: the snapshot and the
\* message it leaves.  The vendor's data is an array when present.
fetchRealTimeDataResume(s) ==
    IF ~s.ok \/ ~CanRead(s.m.body)
    THEN [data |-> realTimeData,
          error |-> Str(<<"Network error. Please check your connection.">>)]
    ELSE LET data == s.m.body
             list == Or(Get(data, "data"), Arr(<<>>))
         IN  IF Get(data, "success") = Bool(TRUE)
             THEN [data |-> IF list.t = "array" THEN list.items ELSE list,
                   error |-> Str(<<>>)]
             ELSE [data |-> realTimeData,
                   error |->
                      IF Get(data, "failCode") = Num(407)
                      THEN Str(<<"API rate limit exceeded. Please wait before refreshing.">>)
                      ELSE IF Get(data, "failCode") = Num(20010)
                      THEN Str(<<"Invalid station codes. Please check your plant selection.">>)
                      ELSE Str(<<"Failed to fetch data. Please try again later.">>)]

FetchRealTimeDataSettled ==
    \E i \in DOMAIN tasks :
       /\ tasks[i].kind = "poll"
       /\ \E s \in Settlements(i) :
             LET r == fetchRealTimeDataResume(s)
             IN  Commit(isAuthenticated, xsrfToken, availablePlants, selectedPlants,
                        FALSE, r.data, FALSE, r.error, credentials,
                        [tasks EXCEPT ![i] = NoTask], net \ {s.m})

\* A logout that leaves the token in its cell.
handleLogout_KeepsToken ==
    [isAuthenticated |-> FALSE, xsrfToken |-> xsrfToken, availablePlants |-> <<>>,
     selectedPlants |-> <<>>, realTimeData |-> <<>>,
     credentials |-> [userName |-> Str(<<>>), systemCode |-> Str(<<>>)],
     loginError |-> Str(<<>>)]

\* handleLogout: the seven cells it sets.  The loading flag is not among
\* them.
handleLogout ==
    [isAuthenticated |-> FALSE, xsrfToken |-> Str(<<>>), availablePlants |-> <<>>,
     selectedPlants |-> <<>>, realTimeData |-> <<>>,
     credentials |-> [userName |-> Str(<<>>), systemCode |-> Str(<<>>)],
     loginError |-> Str(<<>>)]

\* Logout (on the dashboard only).
HandleLogout ==
    /\ isAuthenticated
    /\ LET set == handleLogout
       IN  Commit(set.isAuthenticated, set.xsrfToken, set.availablePlants,
                  set.selectedPlants, TRUE, set.realTimeData, loading,
                  set.loginError, set.credentials, tasks, net)

\* prev => prev.includes(code) ? prev.filter(c => c !== code) : [...prev, code]
handlePlantSelection(prev, code) ==
    IF \E k \in DOMAIN prev : prev[k] = code
    THEN SelectSeq(prev, LAMBDA c : c # code)
    ELSE Append(prev, code)

\* A plant's checkbox on the dashboard.
HandlePlantSelection ==
    /\ isAuthenticated
    /\ \E k \in DOMAIN availablePlants :
          Commit(isAuthenticated, xsrfToken, availablePlants,
                 handlePlantSelection(selectedPlants, availablePlants[k].code), TRUE,
                 realTimeData, loading, loginError, credentials, tasks, net)

\* Refresh (disabled while loading): fetchRealTimeData of the last render.
ClickRefresh ==
    /\ isAuthenticated
    /\ ~loading
    /\ LET call == fetchRealTimeData(xsrfToken, selectedPlants, tasks, net, loading)
       IN  /\ call.ok
           /\ Commit(isAuthenticated, xsrfToken, availablePlants, selectedPlants,
                     FALSE, realTimeData, call.loading, loginError, credentials,
                     call.tasks, call.net)

\* A live interval fires: fetchRealTimeData of the render that created it.
IntervalFired ==
    \E k \in DOMAIN timers :
       LET call == fetchRealTimeData(timers[k].token, timers[k].selected,
                                     tasks, net, loading)
       IN  /\ call.ok
           /\ Commit(isAuthenticated, xsrfToken, availablePlants, selectedPlants,
                     FALSE, realTimeData, call.loading, loginError, credentials,
                     call.tasks, call.net)

AppInit ==
    /\ isAuthenticated = FALSE
    /\ xsrfToken = Str(<<>>)
    /\ availablePlants = <<>>
    /\ selectedPlants = <<>>
    /\ realTimeData = <<>>
    /\ loading = FALSE
    /\ loginError = Str(<<>>)
    /\ credentials = [userName |-> Str(<<>>), systemCode |-> Str(<<>>)]
    /\ timers = <<>>
    /\ effectCleanup = FALSE
    /\ tasks = [i \in 1..MaxTasks |-> NoTask]
    /\ totals = NoTotals

---------------------------------------------------------------------------
(* The specifications.                                                     *)

Init == RelayInit /\ AppInit

NextApp ==
    \/ ChangeUserName
    \/ ChangeSystemCode
    \/ HandleLogin
    \/ HandleLoginSettled
    \/ FetchStationListSettled
    \/ FetchRealTimeDataSettled
    \/ HandleLogout
    \/ HandlePlantSelection
    \/ ClickRefresh
    \/ IntervalFired

\* The dashboard, the relay serving it, and the vendor.
Next ==
    \/ NextApp
    \/ DashboardPostLogin
    \/ PostLoginSettled
    \/ DashboardPostProxy
    \/ PostProxySettled

Spec == Init /\ [][Next]_vars

NextRelay ==
    \/ ClientPostLogin
    \/ PostLoginSettled
    \/ ClientPostProxy
    \/ PostProxySettled

\* The relay under arbitrary clients and an arbitrary vendor.
SpecRelay == Init /\ [][NextRelay]_vars

\* The dashboard holding any telemetry snapshot a poll can have stored,
\* before its render.
InitTotals ==
    /\ RelayInit
    /\ isAuthenticated = TRUE
    /\ xsrfToken = Str(<<"tokA">>)
    /\ availablePlants = <<>>
    /\ selectedPlants = <<>>
    /\ realTimeData \in SnapshotLists
    /\ loading = FALSE
    /\ loginError = Str(<<>>)
    /\ credentials = [userName |-> Str(<<"installer">>), systemCode |-> Str(<<"secret">>)]
    /\ timers = <<>>
    /\ effectCleanup = FALSE
    /\ tasks = [i \in 1..MaxTasks |-> NoTask]
    /\ totals = NoTotals

\* The dashboard renders.
Render ==
    /\ isAuthenticated
    /\ totals = NoTotals
    /\ totals' = renderTotals(isAuthenticated, realTimeData)
    /\ UNCHANGED <<relayVars, net, stateVars, timers, effectCleanup, tasks>>

SpecTotals == InitTotals /\ [][Render]_vars

---------------------------------------------------------------------------
(* The claims about the relay (checked under SpecRelay).                   *)

Handling == relayPc \in {"fetch", "done"}
Has(body, k) == k \in DOMAIN body.p

\* s holds sub as a contiguous run of pieces.
Embeds(s, sub) ==
    \E i \in 1..(Len(s) - Len(sub) + 1) : SubSeq(s, i, i + Len(sub) - 1) = sub

\* No xsrfToken field, or a falsy one (null, false, 0, the empty string).
TokenAbsentOrFalsy(body) ==
    \/ ~Has(body, "xsrfToken")
    \/ body.p["xsrfToken"] \in {Null, Bool(FALSE), Num(0), Str(<<>>)}

\* C1: a generic request whose body has no xsrfToken, or a falsy or empty
\* one, is answered 400 with success:false and 'XSRF token is required',
\* and no upstream request is issued for it.
C1_TokenRequired ==
    (Handling /\ req.route = "proxy" /\ TokenAbsentOrFalsy(req.body))
        => /\ relayPc = "done"
           /\ res = <<Response(400,
                  Obj(("success" :> Bool(FALSE))
                      @@ ("error" :> Str(<<"XSRF token is required">>))))>>
           /\ upstreamReq = <<>>

C1_Witness ==
    /\ relayPc = "done"
    /\ req.route = "proxy"
    /\ req.endpoint = "getStationList"
    /\ Has(req.body, "xsrfToken") /\ req.body.p["xsrfToken"] = Str(<<>>)
    /\ Has(req.body, "pageNo")
    /\ Len(res) = 1 /\ res[1].status = 400

\* stationCodes is absent, or a string of whitespace only (the empty one too).
CodesAbsentOrBlank(body) ==
    \/ ~Has(body, "stationCodes")
    \/ /\ body.p["stationCodes"].t = "string"
       /\ \A i \in 1..Len(body.p["stationCodes"].v) :
              body.p["stationCodes"].v[i] \in {" ", "\t", "\n"}

StationCodesRequired ==
    Response(400, Obj(("success" :> Bool(FALSE))
        @@ ("error" :> Str(<<"stationCodes parameter is required and cannot be empty">>))))

\* C2: of the generic requests that carry a token, one for getStationRealKpi
\* whose stationCodes is absent or blank is answered 400 with the
\* stationCodes message and reaches no upstream; one for any other endpoint
\* is forwarded whatever its stationCodes.
C2_StationCodesRequired ==
    (Handling /\ req.route = "proxy" /\ ~TokenAbsentOrFalsy(req.body))
        => /\ (req.endpoint = "getStationRealKpi" /\ CodesAbsentOrBlank(req.body))
                => /\ relayPc = "done"
                   /\ res = <<StationCodesRequired>>
                   /\ upstreamReq = <<>>
           /\ req.endpoint # "getStationRealKpi"
                => /\ Len(upstreamReq) = 1
                   /\ \A i \in 1..Len(res) : res[i] # StationCodesRequired

C2_Witness ==
    /\ relayPc = "done"
    /\ req.route = "proxy"
    /\ req.endpoint = "getStationRealKpi"
    /\ Has(req.body, "xsrfToken") /\ req.body.p["xsrfToken"] = Str(<<"tokA">>)
    /\ Has(req.body, "stationCodes") /\ req.body.p["stationCodes"] = Str(<<" ">>)
    /\ res = <<StationCodesRequired>>

MissingOrEmpty(body, k) == ~Has(body, k) \/ body.p[k] \in {Null, Str(<<>>)}

\* C3: a login request in which userName or systemCode is missing or empty
\* is answered 400 with success:false and no upstream login request; the
\* upstream login is attempted only when both are present.
C3_LoginRequiresCredentials ==
    (Handling /\ req.route = "login")
        => /\ (MissingOrEmpty(req.body, "userName")
                  \/ MissingOrEmpty(req.body, "systemCode"))
                => /\ relayPc = "done"
                   /\ Len(res) = 1
                   /\ res[1].status = 400
                   /\ Get(res[1].body, "success") = Bool(FALSE)
                   /\ upstreamReq = <<>>
           /\ upstreamReq # <<>>
                => /\ ~MissingOrEmpty(req.body, "userName")
                   /\ ~MissingOrEmpty(req.body, "systemCode")

C3_Witness ==
    /\ relayPc = "done"
    /\ req.route = "login"
    /\ Has(req.body, "userName") /\ req.body.p["userName"] = Str(<<"installer">>)
    /\ ~Has(req.body, "systemCode")
    /\ Len(res) = 1 /\ res[1].status = 400

UpstreamFailed ==
    /\ relayPc = "done"
    /\ upstreamRes.kind = "resolve"
    /\ ~(upstreamRes.response.status \in 200..299)

\* C4: in both handlers, an upstream response with a non-2xx status s is
\* answered with status s and the body {success:false, error}, where error
\* holds s and the upstream status text; the upstream body is neither parsed
\* nor forwarded.
C4_UpstreamStatusMirrored ==
    UpstreamFailed
        => /\ Len(res) = 1
           /\ res[1].status = upstreamRes.response.status
           /\ res[1].body.t = "object"
           /\ DOMAIN res[1].body.p = {"success", "error"}
           /\ res[1].body.p["success"] = Bool(FALSE)
           /\ res[1].body.p["error"].t = "string"
           /\ Embeds(res[1].body.p["error"].v,
                     NumberToString(upstreamRes.response.status))
           /\ Embeds(res[1].body.p["error"].v, <<upstreamRes.response.statusText>>)
           /\ ~parsed

C4_Witness ==
    /\ UpstreamFailed
    /\ req.route = "proxy"
    /\ upstreamRes.response.status = 500
    /\ upstreamRes.response.text = JSONstringify(Envelope(FALSE, 407))
    /\ Len(res) = 1 /\ res[1].status = 500
    /\ Embeds(res[1].body.p["error"].v, <<"Internal Server Error">>)

\* The upstream answered 2xx with a body that is JSON text.
UpstreamSucceeded ==
    /\ relayPc = "done"
    /\ upstreamRes.kind = "resolve"
    /\ upstreamRes.response.status \in 200..299
    /\ upstreamRes.response.text.kind = "json"

UpstreamData == upstreamRes.response.text.value

\* The token a login response carries: the first non-empty value among its
\* xsrf-token (XSRF-TOKEN is the same header) and x-xsrf-token headers.
HeaderToken(h) ==
    IF "xsrf-token" \in DOMAIN h /\ h["xsrf-token"] # <<>>
    THEN h["xsrf-token"]
    ELSE IF "x-xsrf-token" \in DOMAIN h /\ h["x-xsrf-token"] # <<>>
    THEN h["x-xsrf-token"]
    ELSE <<>>

\* data with field k set to v, its other fields as they were (a body that
\* is no object has no fields).
WithField(data, k, v) ==
    IF data.t = "object"
    THEN Obj([f \in (DOMAIN data.p) \cup {k} |-> IF f = k THEN v ELSE data.p[f]])
    ELSE data

ClaimedLoginBody ==
    IF HeaderToken(upstreamRes.response.headers) # <<>>
    THEN WithField(UpstreamData, "xsrfToken",
                   Str(HeaderToken(upstreamRes.response.headers)))
    ELSE UpstreamData

\* C5: on a 2xx upstream login response with a JSON body, the relay answers
\* with that body, its field xsrfToken set to the response's non-empty token
\* header and its other fields unchanged; with no such header the body is
\* returned as it is.
C5_LoginBodyAugmented ==
    (UpstreamSucceeded /\ req.route = "login")
        => res = <<Response(200, ClaimedLoginBody)>>

\* C5, for the bodies the login handler can read a property of (any JSON
\* value but null): this much holds.
C5_AugmentedUnlessNull ==
    (UpstreamSucceeded /\ req.route = "login" /\ UpstreamData # Null)
        => res = <<Response(200, ClaimedLoginBody)>>

\* C6: in the generic handler, a 2xx upstream response with a JSON body is
\* answered 200 with that body unchanged, whatever its success flag or
\* failCode (407 and 20010 included).
C6_BodyPassedThrough ==
    (UpstreamSucceeded /\ req.route = "proxy")
        => res = <<Response(200, UpstreamData)>>

\* C6, for every JSON body but null: this much holds.
C6_PassedThroughUnlessNull ==
    (UpstreamSucceeded /\ req.route = "proxy" /\ UpstreamData # Null)
        => res = <<Response(200, UpstreamData)>>

\* C7: every upstream request of the generic handler goes to
\* /thirdData/<endpoint> for the endpoint of the request path, carries the
\* header XSRF-TOKEN with the xsrfToken of that request, and has as body the
\* incoming body without its xsrfToken field: no other field added or dropped.
C7_ForwardedRequest ==
    (req.route = "proxy" /\ upstreamReq # <<>>)
        => /\ Len(upstreamReq) = 1
           /\ upstreamReq[1].url =
                  <<"https://intl.fusionsolar.huawei.com/thirdData/", req.endpoint>>
           /\ Has(req.body, "xsrfToken")
           /\ req.body.p["xsrfToken"].t = "string"
           /\ DOMAIN upstreamReq[1].headers = {"XSRF-TOKEN"}
           /\ upstreamReq[1].headers["XSRF-TOKEN"] = req.body.p["xsrfToken"].v
           /\ upstreamReq[1].body.kind = "json"
           /\ upstreamReq[1].body.value.t = "object"
           /\ DOMAIN upstreamReq[1].body.value.p = (DOMAIN req.body.p) \ {"xsrfToken"}
           /\ \A k \in DOMAIN upstreamReq[1].body.value.p :
                  upstreamReq[1].body.value.p[k] = req.body.p[k]

C7_Witness ==
    /\ relayPc = "fetch"
    /\ req.route = "proxy"
    /\ req.endpoint = "getStationRealKpi"
    /\ DOMAIN req.body.p = {"xsrfToken", "stationCodes", "pageNo"}
    /\ req.body.p["xsrfToken"] = Str(<<"tokB">>)
    /\ Len(upstreamReq) = 1
    /\ upstreamReq[1].headers["XSRF-TOKEN"] = <<"tokB">>

\* The four ways a request ends.
EndsInValidation400 ==
    /\ upstreamReq = <<>>
    /\ res[1].status = 400
    /\ res[1].body \in
          { Obj(("success" :> Bool(FALSE)) @@ ("error" :> Str(<<m>>))) :
              m \in {"Username and system code are required",
                     "XSRF token is required",
                     "stationCodes parameter is required and cannot be empty"} }

EndsInRelayedStatus ==
    /\ UpstreamFailed
    /\ res[1].status = upstreamRes.response.status
    /\ DOMAIN res[1].body.p = {"success", "error"}
    /\ res[1].body.p["success"] = Bool(FALSE)

EndsInCaught500 ==
    /\ res[1].status = 500
    /\ res[1].body.t = "object"
    /\ DOMAIN res[1].body.p = {"success", "error", "details"}
    /\ res[1].body.p["success"] = Bool(FALSE)
    /\ res[1].body.p["error"] \in
          {Str(<<"Login proxy server error">>), Str(<<"Proxy server error">>)}
    /\ res[1].body.p["details"].t = "string"

EndsIn200 ==
    /\ UpstreamSucceeded
    /\ res[1].status = 200
    /\ res[1].body = IF req.route = "login" THEN ClaimedLoginBody ELSE UpstreamData

\* The upstream call threw, or the parsing of its body did.
UpstreamThrew ==
    \/ upstreamRes.kind = "reject"
    \/ /\ upstreamRes.kind = "resolve"
       /\ upstreamRes.response.status \in 200..299
       /\ upstreamRes.response.text.kind # "json"

\* C8: every request to either handler gets exactly one response and no
\* exception leaves the handler; the response is exactly one of: 400 from
\* local validation, the upstream's non-2xx status relayed, 500 with
\* success:false, a generic message and the exception's text, or 200 with the
\* upstream body; a throwing upstream call or body parsing yields the 500,
\* whose details are the exception's text.
C8_OneOutcome ==
    relayPc = "done"
        => /\ ~uncaught
           /\ Len(res) = 1
           /\ Cardinality({ k \in {"400", "relayed", "500", "200"} :
                  \/ k = "400" /\ EndsInValidation400
                  \/ k = "relayed" /\ EndsInRelayedStatus
                  \/ k = "500" /\ EndsInCaught500
                  \/ k = "200" /\ EndsIn200 }) = 1
           /\ UpstreamThrew => EndsInCaught500
           /\ upstreamRes.kind = "reject"
                => res[1].body.p["details"] = Str(upstreamRes.message)
           /\ UpstreamFailed => EndsInRelayedStatus

C8_Witness ==
    /\ relayPc = "done"
    /\ req.route = "login"
    /\ upstreamRes.kind = "reject"
    /\ Len(res) = 1
    /\ EndsInCaught500
    /\ res[1].body.p["details"] = Str(<<"connect ECONNREFUSED">>)

---------------------------------------------------------------------------
(* The claim about the dashboard and the relay together (checked under     *)
(* Spec).                                                                  *)

NonEmptyToken(t) == t.t = "string" /\ t.v # <<>>

\* The dashboard's calls of generic endpoints that are on their way to the
\* relay.
GenericRequests == { m \in net : m.type = "request" /\ m.endpoint # "login" }

SentToken(m) == Get(JSONparse(m.body), "xsrfToken")

\* The vendor calls, other than login, that the relay has issued.
GenericVendorCalls ==
    { k \in DOMAIN upstreamReq : upstreamReq[k].url # VendorUrl("login") }

\* C9: no call of a vendor endpoint other than login is issued without a
\* non-empty session token.  Every generic request the dashboard has sent
\* carries a non-empty token; the station-list request of a login carries
\* the token that login's response yielded; and every generic call the relay
\* has forwarded to the vendor carries a non-empty XSRF-TOKEN header, the
\* token of the request it answers.
C9_TokenBeforeVendorCall ==
    /\ \A m \in GenericRequests : NonEmptyToken(SentToken(m))
    /\ \A i \in DOMAIN tasks :
          tasks[i].kind = "stations" =>
             /\ NonEmptyToken(tasks[i].token)
             /\ \A m \in net :
                   (m.type = "request" /\ m.client = i) =>
                      /\ m.endpoint = "getStationList"
                      /\ SentToken(m) = tasks[i].token
    /\ \A m \in GenericRequests :
          m.endpoint = "getStationRealKpi" => tasks[m.client].kind = "poll"
    /\ \A k \in GenericVendorCalls :
          /\ "XSRF-TOKEN" \in DOMAIN upstreamReq[k].headers
          /\ upstreamReq[k].headers["XSRF-TOKEN"] # <<>>
          /\ NonEmptyToken(Get(req.body, "xsrfToken"))
          /\ upstreamReq[k].headers["XSRF-TOKEN"] = Get(req.body, "xsrfToken").v

\* The dashboard is authenticated with a plant selected and an empty token,
\* the effect has run in that state (its interval holds the empty token),
\* and the poll it called was skipped: no call is in flight.
C9_Witness ==
    /\ isAuthenticated
    /\ xsrfToken = Str(<<>>)
    /\ Len(selectedPlants) > 0
    /\ Len(timers) = 1
    /\ timers[1].token = Str(<<>>)
    /\ \A i \in DOMAIN tasks : tasks[i] = NoTask
    /\ GenericRequests = {}

\* The relay has forwarded a poll of the dashboard to the vendor, with the
\* dashboard's token, while a login of the dashboard has its station-list
\* request on the way with another token.
C9_ForwardedWitness ==
    /\ relayPc = "fetch"
    /\ req.client # 0
    /\ req.endpoint = "getStationRealKpi"
    /\ GenericVendorCalls = {1}
    /\ \E m \in GenericRequests :
          /\ m.endpoint = "getStationList"
          /\ SentToken(m).v # upstreamReq[1].headers["XSRF-TOKEN"]

---------------------------------------------------------------------------
(* The claims about the dashboard (checked under Spec).                    *)

\* The requests this step puts on the way to the relay.
NewRequests == { m \in net' \ net : m.type = "request" }

NoCredentials == [userName |-> Str(<<>>), systemCode |-> Str(<<>>)]

\* The session's cells as a logout leaves them, and no interval live.
SessionDiscarded ==
    /\ ~isAuthenticated
    /\ xsrfToken = Str(<<>>)
    /\ availablePlants = <<>>
    /\ selectedPlants = <<>>
    /\ realTimeData = <<>>
    /\ credentials = NoCredentials
    /\ loginError = Str(<<>>)
    /\ timers = <<>>

\* A step of the dashboard that starts a call of a generic endpoint while
\* no login has succeeded: the dashboard is unauthenticated before the step
\* and after it, and the call is not the station-list fetch that the
\* handling of a successful login response issues.
CallWithoutLogin ==
    \E m \in NewRequests :
       /\ m.endpoint # "login"
       /\ ~isAuthenticated
       /\ ~isAuthenticated'
       /\ ~(/\ m.endpoint = "getStationList"
            /\ tasks[m.client].kind = "login"
            /\ tasks'[m.client].kind = "stations"
            /\ \E r \in net \ net' :
                  /\ r.type = "response"
                  /\ r.client = m.client
                  /\ Get(r.body, "success") = Bool(TRUE)
                  /\ SentToken(m) = Get(r.body, "xsrfToken"))

\* C11: a logout discards the session.  The step of handleLogout leaves the
\* token empty, the dashboard unauthenticated, the available plants, the
\* selection and the snapshot empty, the credentials and the error message
\* cleared and no polling interval live, and it sends no request; and no
\* step of an unauthenticated dashboard starts a call of a generic endpoint
\* other than the station-list fetch of a login that has just succeeded.
C11_LogoutDiscardsSession ==
    [][/\ HandleLogout => (SessionDiscarded' /\ NewRequests = {})
       /\ ~CallWithoutLogin]_vars

\* A logout has acted on a session that had a poll out: the session's
\* cells are cleared and its interval is gone while the poll is in flight.
C11_Witness ==
    /\ SessionDiscarded
    /\ \E i \in DOMAIN tasks : tasks[i].kind = "poll"
    /\ \A i \in DOMAIN tasks : tasks[i].kind \in {"poll", "free"}

\* The intervals this step creates, and those it leaves live.
CreatedTimers ==
    { k \in DOMAIN timers' : \A j \in DOMAIN timers : timers[j].id # timers'[k].id }

SurvivingTimers ==
    { j \in DOMAIN timers : \E k \in DOMAIN timers' : timers'[k].id = timers[j].id }

\* What the fetchRealTimeData call of the closure of interval t sends when
\* called in this step: one poll with the closure's token and selection,
\* or nothing when its guard returns at once.
ImmediateCall(t) ==
    IF skipPoll(t.token, t.selected)
    THEN NewRequests = {}
    ELSE \E m \in NewRequests :
            /\ NewRequests = {m}
            /\ m.endpoint = "getStationRealKpi"
            /\ JSONparse(m.body) = pollBody(t.token, t.selected)
            /\ tasks[m.client].kind # "poll"
            /\ tasks'[m.client].kind = "poll"

\* A step that changes isAuthenticated or the selection leaves no interval
\* from before it live; a step that creates an interval creates one, and
\* makes the one immediate fetchRealTimeData call of its closure.
TimerReplaced ==
    /\ (isAuthenticated' # isAuthenticated \/ selectedPlants' # selectedPlants)
          => (SurvivingTimers = {})
    /\ (CreatedTimers # {})
          => (/\ SurvivingTimers = {}
              /\ \E k \in CreatedTimers :
                    /\ CreatedTimers = {k}
                    /\ ImmediateCall(timers'[k]))

\* At most one interval, live only while the dashboard is authenticated
\* with a plant selected; its closure holds the selection of its render.
TimerLive ==
    /\ Len(timers) <= 1
    /\ (timers # <<>>)
          => (/\ isAuthenticated
              /\ Len(selectedPlants) > 0
              /\ timers[1].selected = selectedPlants)

\* C12: at most one polling interval is live, and only while the dashboard
\* is authenticated with at least one plant selected.  A step that changes
\* isAuthenticated or the selection cancels the interval created before it,
\* before it creates a new one, and every creation of an interval comes
\* with one immediate fetchRealTimeData call.
C12_OneTimer == []TimerLive /\ [][TimerReplaced]_vars

\* An interval that replaced an earlier one is live, the earlier one gone,
\* with the poll of its creation in flight.
C12_Witness ==
    /\ Len(timers) = 1
    /\ timers[1].id = 1
    /\ \E m \in GenericRequests :
          /\ m.endpoint = "getStationRealKpi"
          /\ JSONparse(m.body) = pollBody(timers[1].token, timers[1].selected)

\* The messages this step takes from the network.
Consumed == net \ net'

\* Call i is a handleLogin that, in this step, goes on to fetchStationList:
\* it has taken a response with success true and a non-empty token, stored
\* nothing but that token, and sent the station-list request with it.
LoginSucceeds(i) ==
    /\ tasks[i].kind = "login"
    /\ NonEmptyToken(tasks'[i].token)
    /\ \E r \in Consumed :
          /\ r.type = "response"
          /\ r.client = i
          /\ Get(r.body, "success") = Bool(TRUE)
          /\ Get(r.body, "xsrfToken") = tasks'[i].token
    /\ \E m \in NewRequests :
          /\ m.client = i
          /\ m.endpoint = "getStationList"
          /\ SentToken(m) = tasks'[i].token
    /\ xsrfToken' = tasks'[i].token
    /\ isAuthenticated' = isAuthenticated

\* Call i is a handleLogin that ends in this step: any other outcome.
LoginFails(i) ==
    tasks[i].kind = "login" /\ tasks'[i].kind \notin {"login", "stations"}

\* The dashboard becomes authenticated only in the step in which the
\* station-list fetch of a login that succeeded completes, whatever its
\* outcome; and a login goes on to that fetch only as LoginSucceeds says.
AuthenticatedByLogin ==
    /\ (~isAuthenticated /\ isAuthenticated')
          => (\E i \in DOMAIN tasks :
                 /\ tasks[i].kind = "stations"
                 /\ NonEmptyToken(tasks[i].token)
                 /\ tasks'[i].kind # "stations"
                 /\ \E m \in Consumed : m.client = i)
    /\ \A i \in DOMAIN tasks :
          (tasks'[i].kind = "stations" /\ tasks[i].kind # "stations")
             => LoginSucceeds(i)

\* What a login that fails leaves, whatever isAuthenticated is.
FailureReported ==
    /\ xsrfToken' = xsrfToken
    /\ Truthy(loginError')
    /\ ~loading'

\* C13 as stated: the dashboard becomes authenticated only by a login
\* response with success true and a non-empty token, after the station-list
\* fetch with that token has completed; after any other login outcome the
\* dashboard is unauthenticated, the stored token is unchanged, an error
\* message is set and loading is false.
C13_LoginOutcome ==
    [][/\ AuthenticatedByLogin
       /\ \A i \in DOMAIN tasks :
             LoginFails(i) => (~isAuthenticated' /\ FailureReported)]_vars

\* What holds of every login: as C13 states, but a login that fails leaves
\* isAuthenticated as it was, which is authenticated when a login that
\* overlapped it has succeeded meanwhile.
C13_LoginOutcomeUnlessOverlap ==
    [][/\ AuthenticatedByLogin
       /\ \A i \in DOMAIN tasks :
             LoginFails(i) => (/\ isAuthenticated' = isAuthenticated
                               /\ FailureReported)]_vars

\* A login has ended for want of a token: unauthenticated, the token as it
\* was, the message set, loading false, nothing in flight.
C13_Witness ==
    /\ ~isAuthenticated
    /\ xsrfToken = Str(<<>>)
    /\ loginError = Str(<<"XSRF token not received. Please check API response.">>)
    /\ ~loading
    /\ credentials.userName # Str(<<>>)
    /\ \A i \in DOMAIN tasks : tasks[i] = NoTask

\* Call i is a fetchRealTimeData that ends in this step.
PollEnds(i) == tasks[i].kind = "poll" /\ tasks'[i].kind # "poll"

\* What a poll leaves alone, whatever its outcome.
PollFrame ==
    /\ isAuthenticated' = isAuthenticated
    /\ xsrfToken' = xsrfToken
    /\ availablePlants' = availablePlants
    /\ selectedPlants' = selectedPlants
    /\ credentials' = credentials
    /\ timers' = timers
    /\ NewRequests = {}

\* The message for the failCode of a response whose success is not true.
FailureText(body) ==
    IF Get(body, "failCode") = Num(407)
    THEN <<"API rate limit exceeded. Please wait before refreshing.">>
    ELSE IF Get(body, "failCode") = Num(20010)
    THEN <<"Invalid station codes. Please check your plant selection.">>
    ELSE <<"Failed to fetch data. Please try again later.">>

\* The data of a response, as a snapshot: [] when it has none.
DataOf(body) ==
    IF Truthy(Get(body, "data")) THEN Get(body, "data").items ELSE <<>>

\* The poll that took message m ended as a network error does (the fetch
\* rejected, m lost), as a response whose success is not true does, or as
\* a successful response does.
PollOutcome(m) ==
    \/ /\ realTimeData' = realTimeData
       /\ loginError' = Str(<<"Network error. Please check your connection.">>)
    \/ /\ m.type = "response"
       /\ Get(m.body, "success") # Bool(TRUE)
       /\ realTimeData' = realTimeData
       /\ loginError' = Str(FailureText(m.body))
    \/ /\ m.type = "response"
       /\ Get(m.body, "success") = Bool(TRUE)
       /\ realTimeData' = DataOf(m.body)
       /\ loginError' = Str(<<>>)

PollSettles ==
    \A i \in DOMAIN tasks :
       PollEnds(i) =>
          /\ PollFrame
          /\ ~loading'
          /\ \E m \in Consumed : m.client = i /\ PollOutcome(m)

\* C14: a poll that fails, by a response whose success is not true
\* (failCode 407, 20010 or any other) or by a network error, leaves
\* isAuthenticated, the token, the plants, the selection and the snapshot
\* as they were, and sets only the error message, one string for 407, one
\* for 20010, one for the other responses and one for a network error, and
\* loading to false.  A poll that succeeds puts the response's data in
\* place of the snapshot and clears the error message.
C14_PollOutcome == [][PollSettles]_vars

\* A poll has failed with failCode 407 on a dashboard that shows a
\* snapshot: the snapshot is still there, under the rate-limit message.
C14_Witness ==
    /\ isAuthenticated
    /\ NonEmptyToken(xsrfToken)
    /\ realTimeData # <<>>
    /\ loginError = Str(<<"API rate limit exceeded. Please wait before refreshing.">>)
    /\ ~loading

\* C15: whenever the dashboard is authenticated, the stored session token
\* is a non-empty string.
C15_AuthenticatedHasToken == isAuthenticated => NonEmptyToken(xsrfToken)

\* The dashboard is authenticated and holds a token while a second
\* handleLogin is in flight: the interleaving the invariant is about.
C15_Witness ==
    /\ isAuthenticated
    /\ NonEmptyToken(xsrfToken)
    /\ \E i \in DOMAIN tasks : tasks[i].kind = "login"

\* The logged-out dashboard as handleLogout left it, no login attempted:
\* the cells cleared and no handleLogin in flight.
LoggedOut ==
    /\ SessionDiscarded
    /\ \A i \in DOMAIN tasks : tasks[i].kind \in {"poll", "free"}

\* C16: a poll that was in flight at the logout and completes before the
\* next login attempt leaves the snapshot empty, the error message
\* cleared and the loading flag as it was.
C16_StaleCompletionIgnored ==
    [][\A i \in DOMAIN tasks :
          (LoggedOut /\ PollEnds(i)) =>
             (/\ realTimeData' = <<>>
              /\ loginError' = Str(<<>>)
              /\ loading' = loading)]_vars

\* What holds instead: such a completion changes nothing but the snapshot,
\* the error message, the loading flag and the totals not shown.
C16_StaleCompletionFrame ==
    [][\A i \in DOMAIN tasks : (LoggedOut /\ PollEnds(i)) => PollFrame]_vars

\* A logged-out dashboard shows the login page with the snapshot of a poll
\* that completed after the logout in its state.
C16_Witness ==
    /\ ~isAuthenticated
    /\ xsrfToken = Str(<<>>)
    /\ credentials = NoCredentials
    /\ realTimeData # <<>>
    /\ \A i \in DOMAIN tasks : tasks[i] = NoTask

---------------------------------------------------------------------------
(* The claim about the totals (checked under SpecTotals).                  *)

\* A field that is there and holds a number: a number, or a string of digits.
IsNumeric(x) ==
    \/ x.t = "number"
    \/ x.t = "string" /\ x.v # <<>>
         /\ \A i \in 1..Len(x.v) : x.v[i] \in {"0", "1", "2", "3", "4", "5", "6", "7", "8", "9"}

RECURSIVE Decimal(_)
Decimal(s) ==
    IF s = <<>> THEN 0
    ELSE 10 * Decimal(SubSeq(s, 1, Len(s) - 1))
         + (CHOOSE d \in 0..9 : NumberToString(d) = <<s[Len(s)]>>)

\* What plant contributes to the total of field k: the field's number, and
\* zero for a missing (absent, null) field or dataItemMap.
Contribution(plant, k) ==
    IF ~Has(plant, "dataItemMap") \/ plant.p["dataItemMap"] = Null THEN 0
    ELSE IF ~Has(plant.p["dataItemMap"], k) \/ plant.p["dataItemMap"].p[k] = Null THEN 0
    ELSE IF plant.p["dataItemMap"].p[k].t = "number" THEN plant.p["dataItemMap"].p[k].n
    ELSE Decimal(plant.p["dataItemMap"].p[k].v)

RECURSIVE SumOver(_, _)
SumOver(list, k) ==
    IF list = <<>> THEN 0
    ELSE Contribution(list[1], k) + SumOver(Tail(list), k)

\* Every field a plant of the list holds is numeric or missing.
AllNumeric(list) ==
    \A i \in 1..Len(list) :
        (Has(list[i], "dataItemMap") /\ list[i].p["dataItemMap"] # Null)
            => \A k \in DOMAIN list[i].p["dataItemMap"].p :
                   \/ list[i].p["dataItemMap"].p[k] = Null
                   \/ IsNumeric(list[i].p["dataItemMap"].p[k])

\* C10: for every snapshot list (of numeric fields), each total that
\* calculateTotals returns is the arithmetic sum over the plants of its
\* field, a missing field or dataItemMap counting as zero; the empty list
\* gives all-zero totals.
C10_TotalsAreSums ==
    (totals # NoTotals /\ AllNumeric(realTimeData))
        => totals = [totalDayPower |-> Num(SumOver(realTimeData, "day_power")),
                     totalRevenue |-> Num(SumOver(realTimeData, "day_income")),
                     totalMonthPower |-> Num(SumOver(realTimeData, "month_power")),
                     totalLifetimePower |-> Num(SumOver(realTimeData, "total_power")),
                     totalOnGridEnergy |->
                         Num(SumOver(realTimeData, "day_on_grid_energy"))]

C10_Witness ==
    /\ totals # NoTotals
    /\ Len(realTimeData) = 2
    /\ ~Has(realTimeData[1], "dataItemMap")
    /\ Has(realTimeData[2], "dataItemMap")
    /\ realTimeData[2].p["dataItemMap"] # Null
    /\ DOMAIN realTimeData[2].p["dataItemMap"].p = TelemetryFields \ {"day_income"}
    /\ realTimeData[2].p["dataItemMap"].p["day_power"] = Str(<<"1", "1">>)
    /\ totals.totalDayPower = Num(11)
    /\ totals.totalRevenue = Num(0)
    /\ totals.totalOnGridEnergy = Num(15)

===========================================================================
